---- MODULE Spec2Model ----
(***************************************************************************)
(* Model of the CRM mutation engine (crm/schema.py, crm/models.py).        *)
(*                                                                         *)
(* The entity store is the committed content of the three tables plus the  *)
(* order<->product link table.  Every request handler runs in a process;   *)
(* each database query of a handler is one step, so that handlers of       *)
(* different requests interleave between their queries.  Writes made       *)
(* inside a transaction.atomic block are buffered in the process and       *)
(* reach the committed tables in the step that leaves the block.  The      *)
(* variable serial tells whether the server handles one request at a time  *)
(* or several concurrently; it never changes.                              *)
(*                                                                         *)
(* Prices are counted in thousandths (10.00 is 10000), phone numbers are   *)
(* sequences over the character classes "+", "-", "d" (a digit), emails    *)
(* are sequences of tokens of which the letters have an upper and a lower  *)
(* case.  order_date is not modelled.                                      *)
(***************************************************************************)
EXTENDS Integers, Sequences, FiniteSets, TLC

\* ------------------------------------------------------------------ bounds
MaxBatch == 2
MaxIds == 2
MaxProducts == 2
MaxOrders == 1

Procs == {1, 2}

\* ------------------------------------------------------- program constants
LowStockThreshold == 10
RestockAmount == 10
PhoneMaxLength == 20
PlusMinDigits == 7
PlusMaxDigits == 15
MinPrice == 10
PriceStep == 10
PriceScale == 1000
PriceUnitLimit == 100000000
StockLimit == 2147483647

\* ------------------------------------------------------------------ helpers
Range(s) == {s[i] : i \in 1..Len(s)}

\* a slip: the price of one product is taken for the total
OnePrice(rows, ids) ==
  IF ids = {} THEN 0 ELSE rows[CHOOSE x \in ids : \A y \in ids : x <= y].price

\* products.aggregate(total_amount=Sum('price'))
RECURSIVE SumPrices(_, _)
SumPrices(rows, ids) ==
  IF ids = {} THEN 0
  ELSE LET i == CHOOSE x \in ids : TRUE
       IN rows[i].price + SumPrices(rows, ids \ {i})

\* ---------------------------------------------------------------- emails
LowerCh(c) == CASE c = "A" -> "a" [] c = "B" -> "b" [] OTHER -> c

Lower(e) == [i \in 1..Len(e) |-> LowerCh(e[i])]

\* email__iexact
IExact(e1, e2) == Lower(e1) = Lower(e2)

\* ---------------------------------------------------------------- phones
AllDigits(s) == \A i \in 1..Len(s) : s[i] = "d"

PlusForm(ph) ==
  /\ Len(ph) >= 1 + PlusMinDigits
  /\ Len(ph) <= 1 + PlusMaxDigits
  /\ ph[1] = "+"
  /\ AllDigits(SubSeq(ph, 2, Len(ph)))

DashForm(ph) ==
  /\ Len(ph) = 12
  /\ ph[4] = "-"
  /\ ph[8] = "-"
  /\ AllDigits(SubSeq(ph, 1, 3))
  /\ AllDigits(SubSeq(ph, 5, 7))
  /\ AllDigits(SubSeq(ph, 9, 12))

phone_validator(ph) == PlusForm(ph) \/ DashForm(ph)

\* ------------------------------------------------------------ input domains
EmailLowerA == <<"a", "@", "x.io">>
EmailUpperA == <<"A", "@", "x.io">>
EmailB == <<"b", "@", "x.io">>

PhonePlus == <<"+", "d", "d", "d", "d", "d", "d", "d">>
PhoneDash == <<"d", "d", "d", "-", "d", "d", "d", "-", "d", "d", "d", "d">>
PhoneBad == <<"d", "d", "d">>

CustomerInputs ==
  {[name |-> "Al", email |-> EmailLowerA, phone |-> PhonePlus],
   [name |-> "Al", email |-> EmailUpperA, phone |-> PhonePlus],
   [name |-> "Al", email |-> EmailB, phone |-> PhoneDash],
   [name |-> "Al", email |-> EmailB, phone |-> PhoneBad]}

BatchInputs == UNION {[1..n -> CustomerInputs] : n \in 0..MaxBatch}

PriceInputs == {0, 9999, 10000}
StockInputs == {-1, 3}
ProductInputs == [name : {"P"}, price : PriceInputs, stock : StockInputs]

ProductIdInputs == 1..2
IdListInputs == UNION {[1..n -> ProductIdInputs] : n \in 0..MaxIds}
CustomerIdInputs == 1..2

\* ------------------------------------------------------------------- state
VARIABLES
  customers,   \* Customer table: row i has pk i
  products,    \* Product table: row i has pk i
  orders,      \* Order table: row i has pk i
  links,       \* order_products link table, pairs <<order pk, product pk>>
  pc,          \* position of each request handler
  req,         \* the operation and input each handler was called with
  loc,         \* local variables of each handler
  res,         \* what the handler returned or raised
  serial,      \* TRUE when the server handles one request at a time
  pre,         \* serial only: the tables as the request being handled found them
  prevUls      \* serial only: the products as the latest answered request found
               \* them, when that request was update_low_stock

vars == <<customers, products, orders, links, pc, req, loc, res, serial, pre, prevUls>>

NoMsg == [tag |-> -1, text |-> "", arg |-> <<>>]

GraphQLError(text, arg) == [tag |-> -1, text |-> text, arg |-> arg]

TaggedGraphQLError(idx, text, arg) == [tag |-> idx, text |-> text, arg |-> arg]

NoReq == [op |-> "none", input |-> <<>>]

NoLoc ==
  [idx |-> 0, created |-> <<>>, errors |-> <<>>,
   low |-> <<>>, updated |-> <<>>, txnStock |-> <<>>,
   txnOrder |-> <<>>, total |-> 0]

NoRes ==
  [raised |-> FALSE, err |-> NoMsg, out |-> <<>>, errors |-> <<>>,
   success |-> FALSE, message |-> ""]

Raise(msg) == [NoRes EXCEPT !.raised = TRUE, !.err = msg]

NoPrevUls == [valid |-> FALSE, products |-> <<>>]

Store == [customers |-> customers, products |-> products,
          orders |-> orders, links |-> links]

\* ------------------------------------------------------- validation layer
\* a slip: the lookup is email=..., which tells the cases apart
EmailExistsCaseSensitive(rows, email) ==
  \E i \in 1..Len(rows) : rows[i].email = email

\* Customer.objects.filter(email__iexact=email).exists()
EmailExistsIExact(rows, email) ==
  \E i \in 1..Len(rows) : IExact(rows[i].email, email)

\* the lookup of Model.validate_unique and the unique index on email: the
\* field sets no collation, so both compare exactly, as the default SQLite
\* backend and PostgreSQL do
EmailExistsExact(rows, email) ==
  \E i \in 1..Len(rows) : rows[i].email = email

\* Customer.full_clean(): the fields whose validation fails, in field order
CustomerCleanErrors(rows, c) ==
  (IF c.name = "" THEN <<"name">> ELSE <<>>)
  \o (IF EmailExistsExact(rows, c.email) THEN <<"email">> ELSE <<>>)
  \o (IF c.phone # <<>> /\ (Len(c.phone) > PhoneMaxLength \/ ~phone_validator(c.phone))
        THEN <<"phone">> ELSE <<>>)

flatten_validation_errors(fields) == GraphQLError("ValidationError", fields)

\* the Customer(...) constructor call: phone=input.phone or ""
NewCustomer(input) == [name |-> input.name, email |-> input.email, phone |-> input.phone]

\* --------------------------------------------------------- request arrival
Arrive(p, op, input) ==
  /\ pc[p] = "idle"
  /\ serial => \A q \in Procs : pc[q] = "idle"
  /\ req' = [req EXCEPT ![p] = [op |-> op, input |-> input]]
  /\ pre' = IF serial THEN Store ELSE pre
  /\ UNCHANGED <<serial, prevUls>>

\* ------------------------------------------------------- CreateCustomer
CreateCustomer_check(p, input) ==
  /\ Arrive(p, "create_customer", input)
  /\ IF EmailExistsIExact(customers, input.email)
       THEN /\ pc' = [pc EXCEPT ![p] = "done"]
            /\ res' = [res EXCEPT ![p] = Raise(GraphQLError("Email already exists", input.email))]
       ELSE /\ pc' = [pc EXCEPT ![p] = "cc_full_clean"]
            /\ res' = res
  /\ UNCHANGED <<customers, products, orders, links, loc>>

CreateCustomer_full_clean(p) ==
  /\ pc[p] = "cc_full_clean"
  /\ LET errs == CustomerCleanErrors(customers, NewCustomer(req[p].input))
     IN IF errs # <<>>
          THEN /\ pc' = [pc EXCEPT ![p] = "done"]
               /\ res' = [res EXCEPT ![p] = Raise(flatten_validation_errors(errs))]
          ELSE /\ pc' = [pc EXCEPT ![p] = "cc_save"]
               /\ res' = res
  /\ UNCHANGED <<customers, products, orders, links, req, loc, serial, pre, prevUls>>

\* customer.save(): the INSERT fails on the unique index with an
\* IntegrityError, which the handler does not catch
CreateCustomer_save(p) ==
  /\ pc[p] = "cc_save"
  /\ LET c == NewCustomer(req[p].input)
     IN IF EmailExistsExact(customers, c.email)
          THEN /\ res' = [res EXCEPT ![p] = Raise(GraphQLError("IntegrityError", <<"email">>))]
               /\ customers' = customers
          ELSE /\ customers' = Append(customers, c)
               /\ res' = [res EXCEPT ![p] =
                     [NoRes EXCEPT !.out = <<[id |-> Len(customers) + 1, row |-> c]>>,
                                   !.success = TRUE,
                                   !.message = "Customer created successfully"]]
  /\ pc' = [pc EXCEPT ![p] = "done"]
  /\ UNCHANGED <<products, orders, links, req, loc, serial, pre, prevUls>>

\* ------------------------------------------------------- response delivered
Return(p) ==
  /\ pc[p] = "done"
  /\ pc' = [pc EXCEPT ![p] = "idle"]
  /\ res' = [res EXCEPT ![p] = NoRes]
  /\ loc' = [loc EXCEPT ![p] = NoLoc]
  /\ req' = [req EXCEPT ![p] = NoReq]
  /\ prevUls' = IF serial /\ req[p].op = "update_low_stock"
                  THEN [valid |-> TRUE, products |-> pre.products]
                  ELSE NoPrevUls
  /\ UNCHANGED <<customers, products, orders, links, serial, pre>>

\* --------------------------------------------------- BulkCreateCustomers
\* a slip: the tag counts the inputs from 1
BulkErrorFromOne(idx, inner) == [tag |-> idx + 1, inner |-> inner]

\* errors.append(f"[{idx}] {str(e)}")
BulkError(idx, inner) == [tag |-> idx, inner |-> inner]

\* a slip: the new customer is put in front of the list
CreatedInFront(created, id, c) == <<[id |-> id, row |-> c]>> \o created

\* created.append(cust)
Created(created, id, c) == Append(created, [id |-> id, row |-> c])

BulkCreateCustomers_begin(p, input) ==
  /\ Arrive(p, "bulk_create_customers", input)
  /\ pc' = [pc EXCEPT ![p] = "bk_check"]
  /\ loc' = [loc EXCEPT ![p] = [NoLoc EXCEPT !.idx = 1]]
  /\ UNCHANGED <<customers, products, orders, links, res>>

\* loop head and the existence query of the item at loc.idx; enumerate()
\* counts from 0, so the item at position idx carries the tag idx - 1
BulkCreateCustomers_check(p) ==
  /\ pc[p] = "bk_check"
  /\ LET i == loc[p].idx
         input == req[p].input
     IN IF i > Len(input)
          THEN /\ pc' = [pc EXCEPT ![p] = "done"]
               /\ res' = [res EXCEPT ![p] =
                     [NoRes EXCEPT !.out = loc[p].created, !.errors = loc[p].errors]]
               /\ loc' = loc
          ELSE IF EmailExistsIExact(customers, input[i].email)
                 THEN /\ loc' = [loc EXCEPT
                           ![p].errors = Append(@, BulkError(i - 1,
                              TaggedGraphQLError(i - 1, "Email already exists", input[i].email))),
                           ![p].idx = i + 1]
                      /\ UNCHANGED <<pc, res>>
                 ELSE /\ pc' = [pc EXCEPT ![p] = "bk_full_clean"]
                      /\ UNCHANGED <<loc, res>>
  /\ UNCHANGED <<customers, products, orders, links, req, serial, pre, prevUls>>

BulkCreateCustomers_full_clean(p) ==
  /\ pc[p] = "bk_full_clean"
  /\ LET i == loc[p].idx
         errs == CustomerCleanErrors(customers, NewCustomer(req[p].input[i]))
     IN IF errs # <<>>
          THEN /\ loc' = [loc EXCEPT
                    ![p].errors = Append(@, BulkError(i - 1, GraphQLError("ValidationError", errs))),
                    ![p].idx = i + 1]
               /\ pc' = [pc EXCEPT ![p] = "bk_check"]
          ELSE /\ pc' = [pc EXCEPT ![p] = "bk_save"]
               /\ loc' = loc
  /\ UNCHANGED <<customers, products, orders, links, req, res, serial, pre, prevUls>>

\* cust.save() and the exit of the item's atomic block
BulkCreateCustomers_save(p) ==
  /\ pc[p] = "bk_save"
  /\ LET i == loc[p].idx
         c == NewCustomer(req[p].input[i])
     IN IF EmailExistsExact(customers, c.email)
          THEN /\ loc' = [loc EXCEPT
                    ![p].errors = Append(@, BulkError(i - 1,
                       GraphQLError("Unexpected error: IntegrityError", <<"email">>))),
                    ![p].idx = i + 1]
               /\ customers' = customers
          ELSE /\ customers' = Append(customers, c)
               /\ loc' = [loc EXCEPT
                    ![p].created = Created(@, Len(customers) + 1, c),
                    ![p].idx = i + 1]
  /\ pc' = [pc EXCEPT ![p] = "bk_check"]
  /\ UNCHANGED <<products, orders, links, req, res, serial, pre, prevUls>>

\* ---------------------------------------------------------- CreateProduct
\* Product.full_clean(): the fields whose validation fails, in field order
ProductCleanErrors(pr) ==
  (IF pr.name = "" THEN <<"name">> ELSE <<>>)
  \o (IF pr.price < MinPrice \/ pr.price % PriceStep # 0 \/ pr.price \div PriceScale >= PriceUnitLimit
        THEN <<"price">> ELSE <<>>)
  \o (IF pr.stock < 0 \/ pr.stock > StockLimit THEN <<"stock">> ELSE <<>>)

\* the error CreateProduct.mutate raises for an input, NoMsg when it saves
CreateProductError(input) ==
  IF input.price <= 0 THEN GraphQLError("Price must be greater than zero", <<>>)
  ELSE IF input.stock < 0 THEN GraphQLError("Stock cannot be negative", <<>>)
  ELSE IF ProductCleanErrors(input) # <<>>
         THEN flatten_validation_errors(ProductCleanErrors(input))
  ELSE NoMsg

CreateProduct_mutate(p, input) ==
  /\ Len(products) < MaxProducts
  /\ Arrive(p, "create_product", input)
  /\ IF CreateProductError(input) # NoMsg
       THEN /\ res' = [res EXCEPT ![p] = Raise(CreateProductError(input))]
            /\ products' = products
       ELSE /\ products' = Append(products, input)
            /\ res' = [res EXCEPT ![p] =
                  [NoRes EXCEPT !.out = <<[id |-> Len(products) + 1, row |-> input]>>,
                                !.success = TRUE]]
  /\ pc' = [pc EXCEPT ![p] = "done"]
  /\ UNCHANGED <<customers, orders, links, loc>>

\* ------------------------------------------------------------ CreateOrder
\* Product.objects.filter(pk__in=product_ids)
ProductsIn(rows, ids) == {i \in 1..Len(rows) : i \in Range(ids)}

\* products.count() != len(input.product_ids)
CountMismatch(rows, ids) == Cardinality(ProductsIn(rows, ids)) # Len(ids)

\* a slip: the customer is not looked up
CreateOrderErrorNoCustomer(custs, rows, input) ==
  IF input.product_ids = <<>>
    THEN GraphQLError("At least one product must be selected", <<>>)
  ELSE IF CountMismatch(rows, input.product_ids)
    THEN GraphQLError("One or more product IDs are invalid", <<>>)
  ELSE NoMsg

\* the error CreateOrder.mutate raises before it writes, NoMsg when it goes on
CreateOrderError(custs, rows, input) ==
  IF input.customer_id \notin 1..Len(custs)
    THEN GraphQLError("Invalid customer ID", <<>>)
  ELSE IF input.product_ids = <<>>
    THEN GraphQLError("At least one product must be selected", <<>>)
  ELSE IF CountMismatch(rows, input.product_ids)
    THEN GraphQLError("One or more product IDs are invalid", <<>>)
  ELSE NoMsg

CreateOrder_validate(p, input) ==
  /\ Len(orders) < MaxOrders
  /\ Arrive(p, "create_order", input)
  /\ IF CreateOrderError(customers, products, input) # NoMsg
       THEN /\ pc' = [pc EXCEPT ![p] = "done"]
            /\ res' = [res EXCEPT ![p] = Raise(CreateOrderError(customers, products, input))]
            /\ loc' = loc
       ELSE /\ pc' = [pc EXCEPT ![p] = "co_create"]
            /\ loc' = [loc EXCEPT ![p].total =
                          SumPrices(products, ProductsIn(products, input.product_ids))]
            /\ res' = res
  /\ UNCHANGED <<customers, products, orders, links>>

\* a slip: no transaction, the order row is committed before its links
OrderCreateAutocommit(p, row) ==
  /\ loc' = [loc EXCEPT ![p].txnOrder = <<row>>]
  /\ orders' = Append(orders, row)

\* Order.objects.create(...) inside the atomic block: the row is written in
\* the transaction and is not yet committed
OrderCreate(p, row) ==
  /\ loc' = [loc EXCEPT ![p].txnOrder = <<row>>]
  /\ orders' = orders

CreateOrder_create(p) ==
  /\ pc[p] = "co_create"
  /\ OrderCreate(p, [customer |-> req[p].input.customer_id, total_amount |-> loc[p].total])
  /\ pc' = [pc EXCEPT ![p] = "co_add"]
  /\ UNCHANGED <<customers, products, links, req, res, serial, pre, prevUls>>

\* order.products.add(*products) and the exit of the atomic block, which
\* commits the order row together with its link rows
CreateOrder_add(p) ==
  /\ pc[p] = "co_add"
  /\ LET oid == Len(orders) + 1
         row == loc[p].txnOrder[1]
         pids == ProductsIn(products, req[p].input.product_ids)
     IN /\ orders' = Append(orders, row)
        /\ links' = links \cup {<<oid, i>> : i \in pids}
        /\ res' = [res EXCEPT ![p] =
              [NoRes EXCEPT !.out = <<[id |-> oid, row |-> row]>>, !.success = TRUE]]
  /\ pc' = [pc EXCEPT ![p] = "done"]
  /\ loc' = [loc EXCEPT ![p].txnOrder = <<>>]
  /\ UNCHANGED <<customers, products, req, serial, pre, prevUls>>

\* ------------------------------------------------- UpdateLowStockProducts
\* a slip: the threshold itself counts as low
LowStockInclusive(rows) ==
  LET ids == [i \in 1..Len(rows) |-> i]
      Low(i) == rows[i].stock <= LowStockThreshold
  IN [k \in 1..Len(SelectSeq(ids, Low)) |->
        [id |-> SelectSeq(ids, Low)[k], row |-> rows[SelectSeq(ids, Low)[k]]]]

\* Product.objects.filter(stock__lt=10), in pk order
LowStock(rows) ==
  LET ids == [i \in 1..Len(rows) |-> i]
      Low(i) == rows[i].stock < LowStockThreshold
  IN [k \in 1..Len(SelectSeq(ids, Low)) |->
        [id |-> SelectSeq(ids, Low)[k], row |-> rows[SelectSeq(ids, Low)[k]]]]

\* low_stock_products.exists()
UpdateLowStockProducts_exists(p) ==
  /\ Arrive(p, "update_low_stock", <<>>)
  /\ IF LowStock(products) = <<>>
       THEN /\ pc' = [pc EXCEPT ![p] = "done"]
            /\ res' = [res EXCEPT ![p] =
                  [NoRes EXCEPT !.success = TRUE, !.message = "No low stock products found."]]
       ELSE /\ pc' = [pc EXCEPT ![p] = "uls_fetch"]
            /\ res' = res
  /\ UNCHANGED <<customers, products, orders, links, loc>>

\* the queryset is evaluated when the for loop starts
UpdateLowStockProducts_fetch(p) ==
  /\ pc[p] = "uls_fetch"
  /\ loc' = [loc EXCEPT ![p].low = LowStock(products), ![p].idx = 1]
  /\ pc' = [pc EXCEPT ![p] = IF LowStock(products) = <<>> THEN "uls_commit" ELSE "uls_save"]
  /\ UNCHANGED <<customers, products, orders, links, req, res, serial, pre, prevUls>>

\* a slip: the stock is set to the restock amount
RestockedTo(row) == [row EXCEPT !.stock = RestockAmount]

\* product.stock += 10
Restocked(row) == [row EXCEPT !.stock = @ + RestockAmount]

\* a slip: no transaction, the UPDATE is committed at once
ProductSaveAutocommit(p, id, row) ==
  /\ loc' = [loc EXCEPT ![p].updated = Append(@, [id |-> id, row |-> row]),
                        ![p].idx = @ + 1]
  /\ products' = [products EXCEPT ![id] = row]

\* product.save() inside the atomic function: the UPDATE is written in the
\* transaction and is not yet committed
ProductSave(p, id, row) ==
  /\ loc' = [loc EXCEPT ![p].txnStock = Append(@, [id |-> id, row |-> row]),
                        ![p].updated = Append(@, [id |-> id, row |-> row]),
                        ![p].idx = @ + 1]
  /\ products' = products

UpdateLowStockProducts_save(p) ==
  /\ pc[p] = "uls_save"
  /\ LET item == loc[p].low[loc[p].idx]
     IN ProductSave(p, item.id, Restocked(item.row))
  /\ pc' = [pc EXCEPT ![p] = IF loc[p].idx = Len(loc[p].low) THEN "uls_commit" ELSE "uls_save"]
  /\ UNCHANGED <<customers, orders, links, req, res, serial, pre, prevUls>>

\* the rows of a table after the UPDATEs of a transaction are committed
ApplyUpdates(rows, writes) ==
  [i \in 1..Len(rows) |->
     IF \E k \in 1..Len(writes) : writes[k].id = i
       THEN writes[CHOOSE k \in 1..Len(writes) :
                     /\ writes[k].id = i
                     /\ \A m \in (k + 1)..Len(writes) : writes[m].id # i].row
       ELSE rows[i]]

\* the atomic function returns: its transaction commits
UpdateLowStockProducts_commit(p) ==
  /\ pc[p] = "uls_commit"
  /\ products' = ApplyUpdates(products, loc[p].txnStock)
  /\ res' = [res EXCEPT ![p] =
        [NoRes EXCEPT !.out = loc[p].updated, !.success = TRUE,
                      !.message = "Successfully restocked"]]
  /\ pc' = [pc EXCEPT ![p] = "done"]
  /\ loc' = [loc EXCEPT ![p].txnStock = <<>>]
  /\ UNCHANGED <<customers, orders, links, req, serial, pre, prevUls>>

\* ------------------------------------------------------------------ Query
\* a reader sees the committed rows
resolve_all_products(p) ==
  /\ Arrive(p, "all_products", <<>>)
  /\ res' = [res EXCEPT ![p] =
        [NoRes EXCEPT !.out = [i \in 1..Len(products) |-> [id |-> i, row |-> products[i]]],
                      !.success = TRUE]]
  /\ pc' = [pc EXCEPT ![p] = "done"]
  /\ UNCHANGED <<customers, products, orders, links, loc>>

\* ------------------------------------------------------------ specification
InitCustomers == {<<>>, <<[name |-> "Al", email |-> EmailLowerA, phone |-> <<>>]>>}

InitProductRows ==
  {[name |-> "P", price |-> 10000, stock |-> 3],
   [name |-> "P", price |-> 15000, stock |-> 50]}

InitProducts == UNION {[1..n -> InitProductRows] : n \in 0..MaxProducts}

InitStockRows == {[name |-> "P", price |-> 10000, stock |-> n] : n \in {0, 3, 10, 50}}

InitStocks == UNION {[1..n -> InitStockRows] : n \in 0..MaxProducts}

InitWith(custs, prods, modes) ==
  /\ customers \in custs
  /\ products \in prods
  /\ orders = <<>>
  /\ links = {}
  /\ pc = [p \in Procs |-> "idle"]
  /\ req = [p \in Procs |-> NoReq]
  /\ loc = [p \in Procs |-> NoLoc]
  /\ res = [p \in Procs |-> NoRes]
  /\ serial \in modes
  /\ pre = [customers |-> <<>>, products |-> <<>>, orders |-> <<>>, links |-> {}]
  /\ prevUls = NoPrevUls

Init == InitWith(InitCustomers, InitProducts \cup InitStocks, BOOLEAN)

OrderInputs == [customer_id : CustomerIdInputs, product_ids : IdListInputs]

Next ==
  \E p \in Procs :
    \/ \E input \in CustomerInputs : CreateCustomer_check(p, input)
    \/ CreateCustomer_full_clean(p)
    \/ CreateCustomer_save(p)
    \/ \E input \in BatchInputs : BulkCreateCustomers_begin(p, input)
    \/ BulkCreateCustomers_check(p)
    \/ BulkCreateCustomers_full_clean(p)
    \/ BulkCreateCustomers_save(p)
    \/ \E input \in ProductInputs : CreateProduct_mutate(p, input)
    \/ \E input \in OrderInputs : CreateOrder_validate(p, input)
    \/ CreateOrder_create(p)
    \/ CreateOrder_add(p)
    \/ UpdateLowStockProducts_exists(p)
    \/ UpdateLowStockProducts_fetch(p)
    \/ UpdateLowStockProducts_save(p)
    \/ UpdateLowStockProducts_commit(p)
    \/ resolve_all_products(p)
    \/ Return(p)

\* every operation, requests handled concurrently or one at a time
Spec == Init /\ [][Next]_vars

\* the customer operations
NextCustomers ==
  \E p \in Procs :
    \/ \E input \in CustomerInputs : CreateCustomer_check(p, input)
    \/ CreateCustomer_full_clean(p)
    \/ CreateCustomer_save(p)
    \/ \E input \in BatchInputs : BulkCreateCustomers_begin(p, input)
    \/ BulkCreateCustomers_check(p)
    \/ BulkCreateCustomers_full_clean(p)
    \/ BulkCreateCustomers_save(p)
    \/ Return(p)

SpecCustomers == InitWith(InitCustomers, {<<>>}, {FALSE}) /\ [][NextCustomers]_vars

SpecCustomersSerial == InitWith(InitCustomers, {<<>>}, {TRUE}) /\ [][NextCustomers]_vars

\* the product operations and a reader of the product table
NextProducts ==
  \E p \in Procs :
    \/ \E input \in ProductInputs : CreateProduct_mutate(p, input)
    \/ UpdateLowStockProducts_exists(p)
    \/ UpdateLowStockProducts_fetch(p)
    \/ UpdateLowStockProducts_save(p)
    \/ UpdateLowStockProducts_commit(p)
    \/ resolve_all_products(p)
    \/ Return(p)

SpecProducts == InitWith({<<>>}, InitStocks, {FALSE}) /\ [][NextProducts]_vars

SpecProductsSerial == InitWith({<<>>}, InitStocks, {TRUE}) /\ [][NextProducts]_vars

\* the single-entity operations, one request at a time
NextSingle ==
  \E p \in Procs :
    \/ \E input \in CustomerInputs : CreateCustomer_check(p, input)
    \/ CreateCustomer_full_clean(p)
    \/ CreateCustomer_save(p)
    \/ \E input \in ProductInputs : CreateProduct_mutate(p, input)
    \/ \E input \in OrderInputs : CreateOrder_validate(p, input)
    \/ CreateOrder_create(p)
    \/ CreateOrder_add(p)
    \/ Return(p)

SpecSingleSerial == InitWith(InitCustomers, InitProducts, {TRUE}) /\ [][NextSingle]_vars

\* create_order handled concurrently, while products are being created
NextOrders ==
  \E p \in Procs :
    \/ \E input \in ProductInputs : CreateProduct_mutate(p, input)
    \/ \E input \in OrderInputs : CreateOrder_validate(p, input)
    \/ CreateOrder_create(p)
    \/ CreateOrder_add(p)
    \/ Return(p)

SpecOrders == InitWith(InitCustomers, InitProducts, {FALSE}) /\ [][NextOrders]_vars

\* ----------------------------------------------------------------- claims
Finished(p, op) == pc[p] = "done" /\ req[p].op = op

\* an input that fails against a customer table: its email is there already,
\* whatever the case of its letters, or a field of it is invalid
FailsAgainst(rows, c) ==
  \/ EmailExistsIExact(rows, c.email)
  \/ c.name = ""
  \/ c.phone # <<>> /\ ~phone_validator(c.phone)

\* the customer table once the first k inputs of a batch are processed in order
RECURSIVE TableAfter(_, _, _)
TableAfter(rows, input, k) ==
  IF k = 0 THEN rows
  ELSE LET before == TableAfter(rows, input, k - 1)
       IN IF FailsAgainst(before, input[k]) THEN before
          ELSE Append(before, NewCustomer(input[k]))

FailingInputs(rows, input) ==
  {i \in 1..Len(input) : FailsAgainst(TableAfter(rows, input, i - 1), input[i])}

ErrorsTagged(errors, tag) == {k \in 1..Len(errors) : errors[k].tag = tag}

\* C1: a finished bulk_create_customers has created and committed every input
\* that does not fail, wherever it stands among the failing ones; the created
\* list has len(input) minus the number of failing inputs entries; and every
\* failing input i has exactly one error, tagged i, while the others have none.
C1_BulkPartialFailure ==
  \A p \in Procs :
    (serial /\ Finished(p, "bulk_create_customers")) =>
      LET input == req[p].input
          failing == FailingInputs(pre.customers, input)
          created == res[p].out
          errors == res[p].errors
      IN /\ ~res[p].raised
         /\ Len(created) = Len(input) - Cardinality(failing)
         /\ Len(errors) = Cardinality(failing)
         /\ \A i \in 1..Len(input) :
              IF i \in failing
                THEN Cardinality(ErrorsTagged(errors, i - 1)) = 1
                ELSE /\ ErrorsTagged(errors, i - 1) = {}
                     /\ \E k \in 1..Len(created) :
                          /\ created[k].row = NewCustomer(input[i])
                          /\ created[k].id \in (Len(pre.customers) + 1)..Len(customers)
                          /\ customers[created[k].id] = NewCustomer(input[i])
         /\ \A i \in 1..Len(pre.customers) : customers[i] = pre.customers[i]

\* a batch whose first input duplicates an existing customer and whose second
\* input is created
C1_Witness ==
  \E p \in Procs :
    /\ serial
    /\ Finished(p, "bulk_create_customers")
    /\ Len(req[p].input) = 2
    /\ EmailExistsIExact(pre.customers, req[p].input[1].email)
    /\ Len(res[p].errors) = 1
    /\ res[p].errors[1].tag = 0
    /\ Len(res[p].out) = 1
    /\ res[p].out[1].row = NewCustomer(req[p].input[2])
    /\ customers[Len(customers)] = NewCustomer(req[p].input[2])

\* C3: no two committed customers have emails that are equal when the case of
\* the letters is ignored.
C3_EmailUniqueIgnoringCase ==
  \A i, j \in 1..Len(customers) :
    i # j => ~IExact(customers[i].email, customers[j].email)

\* the error a caller is to get for an email that is taken
DuplicateEmail(err) ==
  \/ err.text = "Email already exists"
  \/ err.text = "ValidationError" /\ "email" \in Range(err.arg)

\* C4: of two create_customer calls for one email that both passed the
\* existence check, at most one creates the customer, and the other one (its
\* input is valid, so the taken email is all that can fail it) fails with the
\* duplicate-email error.
C4_RaceReportsDuplicateEmail ==
  /\ \A i, j \in 1..Len(customers) : i # j => customers[i].email # customers[j].email
  /\ \A p \in Procs :
       (/\ Finished(p, "create_customer")
        /\ res[p].raised
        /\ ~FailsAgainst(<<>>, req[p].input)) => DuplicateEmail(res[p].err)

\* C10: for a batch of valid inputs whose emails differ from one another and
\* from every stored email, whatever the case of their letters, the finished
\* bulk_create_customers has created the inputs one by one in their order (the
\* k-th created customer is the k-th input, with the k-th new id), and has no
\* error.
C10_BulkAllValid ==
  \A p \in Procs :
    (/\ serial
     /\ Finished(p, "bulk_create_customers")
     /\ \A i \in 1..Len(req[p].input) :
          /\ ~FailsAgainst(pre.customers, req[p].input[i])
          /\ \A j \in 1..Len(req[p].input) :
               i # j => ~IExact(req[p].input[i].email, req[p].input[j].email))
    => /\ res[p].errors = <<>>
       /\ Len(res[p].out) = Len(req[p].input)
       /\ \A k \in 1..Len(req[p].input) :
            /\ res[p].out[k].row = NewCustomer(req[p].input[k])
            /\ res[p].out[k].id = Len(pre.customers) + k
            /\ customers[Len(pre.customers) + k] = NewCustomer(req[p].input[k])

\* a batch of MaxBatch valid inputs, all created
C10_Witness ==
  \E p \in Procs :
    /\ serial
    /\ Finished(p, "bulk_create_customers")
    /\ Len(req[p].input) >= 2
    /\ res[p].errors = <<>>
    /\ Len(res[p].out) = Len(req[p].input)

\* the pks of the products of a table whose stock is below the threshold
LowIds(rows) == {i \in 1..Len(rows) : rows[i].stock < LowStockThreshold}

\* C2: create_order for an existing customer and a list of product ids whose
\* distinct ids all exist creates the order and links it to each distinct
\* product once, also when the list names a product several times.
C2_DuplicateIdsAreOneProduct ==
  \A p \in Procs :
    (/\ serial
     /\ Finished(p, "create_order")
     /\ req[p].input.customer_id \in 1..Len(pre.customers)
     /\ req[p].input.product_ids # <<>>
     /\ Range(req[p].input.product_ids) \subseteq 1..Len(pre.products))
    => /\ ~res[p].raised
       /\ Len(orders) = Len(pre.orders) + 1
       /\ {l[2] : l \in {m \in links : m[1] = Len(orders)}} = Range(req[p].input.product_ids)

\* C5 as first stated: after two update_low_stock calls in succession, every
\* product that was below the threshold before the first call has had 10
\* added by each of the two calls.
C5_EachCallAddsTen ==
  \A p \in Procs :
    (serial /\ Finished(p, "update_low_stock") /\ prevUls.valid) =>
      \A i \in LowIds(prevUls.products) :
        products[i].stock = prevUls.products[i].stock + 2 * RestockAmount

\* C5: after two update_low_stock calls in succession, every product that was
\* below the threshold before the first call has had 10 added once, by the
\* first call; the second call finds no product below the threshold, changes
\* nothing and returns success with an empty list.
C5_SecondCallIsNoOp ==
  \A p \in Procs :
    (serial /\ Finished(p, "update_low_stock") /\ prevUls.valid) =>
      /\ Len(products) = Len(prevUls.products)
      /\ \A i \in 1..Len(products) :
           products[i].stock =
             prevUls.products[i].stock
               + (IF i \in LowIds(prevUls.products) THEN RestockAmount ELSE 0)
      /\ products = pre.products
      /\ res[p].out = <<>>
      /\ res[p].success
      /\ ~res[p].raised

\* the second of two calls has finished, and the first one restocked a product
C5_Witness ==
  \E p \in Procs :
    /\ serial
    /\ Finished(p, "update_low_stock")
    /\ prevUls.valid
    /\ LowIds(prevUls.products) # {}
    /\ \E i \in LowIds(prevUls.products) :
         products[i].stock = prevUls.products[i].stock + RestockAmount

\* C6: a finished update_low_stock has added 10 to the stock of every product
\* that was below 10 and has left every other product, and every other field
\* and table, as it was; it returns success and the modified products, each
\* once with its new stock; with no product below 10 the store is unchanged
\* and the list is empty.
C6_SingleCallFrame ==
  \A p \in Procs :
    (serial /\ Finished(p, "update_low_stock")) =>
      /\ res[p].success
      /\ ~res[p].raised
      /\ Len(products) = Len(pre.products)
      /\ \A i \in 1..Len(products) :
           products[i] =
             IF pre.products[i].stock < 10
               THEN [pre.products[i] EXCEPT !.stock = @ + 10]
               ELSE pre.products[i]
      /\ customers = pre.customers /\ orders = pre.orders /\ links = pre.links
      /\ {res[p].out[k].id : k \in 1..Len(res[p].out)} = LowIds(pre.products)
      /\ Len(res[p].out) = Cardinality(LowIds(pre.products))
      /\ \A k \in 1..Len(res[p].out) : res[p].out[k].row = products[res[p].out[k].id]
      /\ (LowIds(pre.products) = {} => products = pre.products /\ res[p].out = <<>>)

\* a call that found one product below 10 and one at or above it
C6_Witness ==
  \E p \in Procs :
    /\ serial
    /\ Finished(p, "update_low_stock")
    /\ Len(res[p].out) = 1
    /\ \E i, j \in 1..Len(products) :
         /\ pre.products[i].stock < 10
         /\ products[i].stock = pre.products[i].stock + 10
         /\ pre.products[j].stock >= 10
         /\ products[j] = pre.products[j]

\* C7: the committed stock of products changes only in the one step in which
\* an update_low_stock call commits, and that step makes every increment of
\* the call visible together: a reader, who sees the committed rows, sees
\* none or all of them.
C7_RestockIsAtomic ==
  [][(\E i \in 1..Len(products) : products'[i].stock # products[i].stock) =>
       \E q \in Procs :
         /\ pc[q] = "uls_commit"
         /\ pc'[q] = "done"
         /\ loc[q].low # <<>>
         /\ \A k \in 1..Len(loc[q].low) :
              products'[loc[q].low[k].id].stock = loc[q].low[k].row.stock + RestockAmount
         /\ \A i \in 1..Len(products) :
              products'[i].stock # products[i].stock =>
                \E k \in 1..Len(loc[q].low) : loc[q].low[k].id = i]_vars

\* a reader has read the products while a call had saved the first of the two
\* products it restocks: it saw both with the stock they had before
C7_Witness ==
  \E q, r \in Procs :
    /\ ~serial
    /\ pc[q] = "uls_save"
    /\ Len(loc[q].low) = 2
    /\ Len(loc[q].txnStock) = 1
    /\ Finished(r, "all_products")
    /\ \A k \in 1..2 :
         /\ loc[q].low[k].id <= Len(res[r].out)
         /\ res[r].out[loc[q].low[k].id].row.stock = loc[q].low[k].row.stock

\* C8: every committed order references an existing customer and is linked to
\* at least one product, every link row joins an existing order to an existing
\* product, and a create_order that has returned has committed its order with
\* a link to each of its products.
C8_OrderWithItsLinks ==
  /\ \A o \in 1..Len(orders) :
       /\ orders[o].customer \in 1..Len(customers)
       /\ \E l \in links : l[1] = o
  /\ \A l \in links : l[1] \in 1..Len(orders) /\ l[2] \in 1..Len(products)
  /\ \A p \in Procs :
       (Finished(p, "create_order") /\ ~res[p].raised) =>
         /\ res[p].out[1].id \in 1..Len(orders)
         /\ orders[res[p].out[1].id] = res[p].out[1].row
         /\ \A i \in Range(req[p].input.product_ids) : <<res[p].out[1].id, i>> \in links

\* an order linked to two products is committed
C8_Witness ==
  \E o \in 1..Len(orders) : Cardinality({l \in links : l[1] = o}) = 2

\* what the claim counts as a validation failure of each operation
InvalidCustomerInput(st, c) ==
  EmailExistsIExact(st.customers, c.email) \/ (c.phone # <<>> /\ ~phone_validator(c.phone))

InvalidProductInput(pr) == pr.price <= 0 \/ pr.stock < 0

InvalidOrderInput(st, o) ==
  \/ o.customer_id \notin 1..Len(st.customers)
  \/ o.product_ids = <<>>
  \/ ~(Range(o.product_ids) \subseteq 1..Len(st.products))

\* the error of the first failing check of each operation
FirstError(st, op, input) ==
  IF op = "create_customer"
    THEN IF EmailExistsIExact(st.customers, input.email) THEN "Email already exists"
         ELSE "ValidationError"
  ELSE IF op = "create_product"
    THEN IF input.price <= 0 THEN "Price must be greater than zero"
         ELSE IF input.stock < 0 THEN "Stock cannot be negative"
         ELSE "ValidationError"
  ELSE IF input.customer_id \notin 1..Len(st.customers) THEN "Invalid customer ID"
  ELSE IF input.product_ids = <<>> THEN "At least one product must be selected"
  ELSE "One or more product IDs are invalid"

SingleEntityOps == {"create_customer", "create_product", "create_order"}

InvalidInput(st, op, input) ==
  IF op = "create_customer" THEN InvalidCustomerInput(st, input)
  ELSE IF op = "create_product" THEN InvalidProductInput(input)
  ELSE InvalidOrderInput(st, input)

\* C9: a finished create_customer, create_product or create_order whose input
\* fails validation has raised, and one that has raised has raised the error
\* of the first failing check and has left every table as the call found it.
C9_FailureWritesNothing ==
  \A p \in Procs :
    (serial /\ pc[p] = "done" /\ req[p].op \in SingleEntityOps) =>
      /\ InvalidInput(pre, req[p].op, req[p].input) => res[p].raised
      /\ res[p].raised =>
           /\ Store = pre
           /\ res[p].err.text = FirstError(pre, req[p].op, req[p].input)
           /\ res[p].out = <<>>

\* a create_order for an unknown customer and an unknown product has raised
\* the customer's error; the tables hold rows
C9_Witness ==
  \E p \in Procs :
    /\ serial
    /\ Finished(p, "create_order")
    /\ res[p].raised
    /\ res[p].err.text = "Invalid customer ID"
    /\ req[p].input.product_ids # <<>>
    /\ ~(Range(req[p].input.product_ids) \subseteq 1..Len(pre.products))
    /\ customers # <<>>
    /\ products # <<>>

\* the handler of a batch is past the input at position i
PastInput(p, i) ==
  /\ req[p].op = "bulk_create_customers"
  /\ pc[p] \in {"bk_check", "bk_full_clean", "bk_save", "done"}
  /\ (pc[p] = "done" \/ loc[p].idx > i)

\* inputs i < j of a batch carry one email in two spellings, which no stored
\* customer and no earlier input of the batch carries, and input i is valid
CaseVariants(rows, input, i, j) ==
  /\ i < j
  /\ input[i].email # input[j].email
  /\ IExact(input[i].email, input[j].email)
  /\ \A r \in 1..Len(rows) : ~IExact(rows[r].email, input[i].email)
  /\ \A k \in 1..(i - 1) : ~IExact(input[k].email, input[i].email)
  /\ input[i].name # ""
  /\ (input[i].phone = <<>> \/ phone_validator(input[i].phone))

\* C11: when two inputs of one batch carry emails that differ only in the case
\* of their letters and the email is not stored yet, the earlier input is
\* committed as soon as the handler is past it, so before the later input is
\* checked, and the later input is not created: it gets exactly one error,
\* the duplicate-email error tagged with its own index.
C11_CaseVariantsInOneBatch ==
  \A p \in Procs :
    (serial /\ req[p].op = "bulk_create_customers") =>
      \A i, j \in 1..Len(req[p].input) :
        CaseVariants(pre.customers, req[p].input, i, j) =>
          /\ PastInput(p, i) =>
               \E r \in (Len(pre.customers) + 1)..Len(customers) :
                 customers[r] = NewCustomer(req[p].input[i])
          /\ PastInput(p, j) =>
               LET errors == IF pc[p] = "done" THEN res[p].errors ELSE loc[p].errors
               IN /\ \A r \in 1..Len(customers) : customers[r].email # req[p].input[j].email
                  /\ Cardinality(ErrorsTagged(errors, j - 1)) = 1
                  /\ \A k \in ErrorsTagged(errors, j - 1) :
                       /\ errors[k].inner.text = "Email already exists"
                       /\ errors[k].inner.tag = j - 1
                       /\ errors[k].inner.arg = req[p].input[j].email

\* a finished batch of two spellings of a new email: the first is created,
\* the second has the error tagged 1
C11_Witness ==
  \E p \in Procs :
    /\ serial
    /\ Finished(p, "bulk_create_customers")
    /\ Len(req[p].input) = 2
    /\ CaseVariants(pre.customers, req[p].input, 1, 2)
    /\ Len(res[p].out) = 1
    /\ res[p].out[1].row = NewCustomer(req[p].input[1])
    /\ Len(res[p].errors) = 1
    /\ res[p].errors[1].tag = 1

\* the products an order is linked to
LinkedProducts(o) == {l[2] : l \in {m \in links : m[1] = o}}

RECURSIVE PriceTotal(_, _)
PriceTotal(rows, ids) ==
  IF ids = {} THEN 0
  ELSE LET i == CHOOSE x \in ids : \A y \in ids : x >= y
       IN PriceTotal(rows, ids \ {i}) + rows[i].price

\* C12: the total_amount of every committed order is the sum of the prices of
\* the distinct products it is linked to, a whole number of hundredths; and
\* the order a create_order has returned is linked to exactly the distinct
\* ids of its request and carries that total.
C12_TotalIsSumOfLinkedPrices ==
  /\ \A o \in 1..Len(orders) :
       /\ orders[o].total_amount = PriceTotal(products, LinkedProducts(o))
       /\ orders[o].total_amount % PriceStep = 0
  /\ \A p \in Procs :
       (Finished(p, "create_order") /\ ~res[p].raised) =>
         /\ LinkedProducts(res[p].out[1].id) = Range(req[p].input.product_ids)
         /\ res[p].out[1].row.total_amount =
              PriceTotal(products, Range(req[p].input.product_ids))

\* an order of the products priced 10.00 and 15.00 is committed with the
\* total 25.00
C12_Witness ==
  \E o \in 1..Len(orders) :
    /\ Cardinality(LinkedProducts(o)) = 2
    /\ {products[i].price : i \in LinkedProducts(o)} = {10000, 15000}
    /\ orders[o].total_amount = 25000

\* the calls that have returned product i in updated_products
ReturnedBy(i) ==
  {p \in Procs :
     /\ Finished(p, "update_low_stock")
     /\ \E k \in 1..Len(res[p].out) : res[p].out[k].id = i}

\* the stock of product i as the calls that returned it read it
StocksRead(i) ==
  UNION {{loc[p].low[k].row.stock :
            k \in {n \in 1..Len(loc[p].low) : loc[p].low[n].id = i}} :
         p \in ReturnedBy(i)}

NoRestockInProgress ==
  \A p \in Procs : pc[p] \notin {"uls_fetch", "uls_save", "uls_commit"}

\* C13: once concurrent update_low_stock calls have all committed, a product
\* that several of them returned, all having read the same stock of it (its
\* stock before any of them committed), has that stock plus 10 for each call
\* that returned it.
C13_NoRestockLost ==
  \A i \in 1..Len(products) :
    (/\ NoRestockInProgress
     /\ Cardinality(ReturnedBy(i)) >= 2
     /\ Cardinality(StocksRead(i)) = 1)
    => \A s \in StocksRead(i) :
         products[i].stock = s + RestockAmount * Cardinality(ReturnedBy(i))

====
